---- MODULE Spec2Model ----
(***************************************************************************)
(* A model of the finetuning harness: the input pipeline's array formatter *)
(* and chunker (finetune/input_pipeline.py) and the model lifecycle        *)
(* controller with its grid search (finetune/base.py).                     *)
(*                                                                         *)
(* Python values are modelled as follows.  An optional value is a sequence *)
(* of length at most one: None is <<>> and a value v is <<v>>.  A numpy    *)
(* array of n rows is a sequence of length n; Python index k is TLA+ index *)
(* k+1.  A call that raises is recorded by the name of the exception.      *)
(***************************************************************************)
EXTENDS Integers, Sequences, FiniteSets, TLC

VARIABLES
    fmt,        \* the last _array_format call: configuration, input, result
    chunks,     \* the last _text_to_ids call: configuration, encoding, result
    vsettings,  \* the last validation_settings call
    grid,       \* the grid search in progress and its results
    split,      \* the last _get_train_input_fns call: examples, orders, result
    embed,      \* the embedding table transform: checkpoint, configuration, stage
    config,     \* the model instance's configuration (self.config)
    model,      \* the BaseModel instance's own fields
    pipeline,   \* the instance's input pipeline (self.input_pipeline)
    fs,         \* the directories that exist on disk
    engine,     \* what has been asked of the training/inference engine
    last        \* the last lifecycle call and how it ended

vars == <<fmt, chunks, vsettings, grid, split, embed, config, model, pipeline, fs, engine, last>>

-----------------------------------------------------------------------------
(* Bounds of the model. *)

\* config.max_length ranges over 1..MaxLen in the array formatter's harness
MaxLen == 3
\* encoded inputs have 0..MaxSeq tokens (more than MaxLen: overlong inputs occur)
MaxSeq == 4
\* token ids range over 1..MaxToken
MaxToken == 2
\* config.max_length ranges over 1..MaxChunkLen in the chunker's harness
MaxChunkLen == 8
\* the full (untruncated) encodings in the chunker's harness have 0..MaxChunkSeq tokens
MaxChunkSeq == 7
\* config.max_length is reassigned at most MaxChunkChanges times while a
\* generator is suspended
MaxChunkChanges == 1
\* validation_settings is called with n_examples in 0..MaxExamples (beyond 2000,
\* where 5% of the examples exceeds the cap of 100)
MaxExamples == 2030
\* and with batch_size in 1..MaxBatch
MaxBatch == 3
\* eval_fn returns a score in 0..MaxScore
MaxScore == 1
\* finetune_grid_search_cv is called with n_splits in 1..MaxSplits
MaxSplits == 2
\* a model instance is finetuned on 0..MaxN examples
MaxN == 3
\* config.n_epochs ranges over 1..MaxEpochs
MaxEpochs == 2
\* config.visible_gpus holds 0..MaxGpus devices
MaxGpus == 2
\* config.batch_size ranges over 1..MaxCfgBatch
MaxCfgBatch == 2
\* the seed text of generate_text encodes to 0..MaxSeed tokens
MaxSeed == 2
\* config.max_length of the model instance ranges over MinGenLen..MaxGenLen
MaxGenLen == 4
\* at most MaxBuilds engines are built and MaxFits label encoders fit per instance
MaxBuilds == 2
MaxFits == 2
\* __del__ runs at most MaxDisposals times on an instance
MaxDisposals == 2
\* a configured val_size is 1..MaxValSize
MaxValSize == 2
\* the input functions split 0..MaxSplitExamples encoded examples, with
\* val_size up to MaxSplitVal, batches of up to MaxSplitBatch and up to
\* MaxSplitEpochs epochs
MaxSplitExamples == 3
MaxSplitVal == 4
MaxSplitBatch == 2
MaxSplitEpochs == 2
\* the embedding table: max_length is 1..MaxEmbLen, the base checkpoint has
\* 1..MaxPosRows positional rows, and up to MaxEmbFormats arrays are formatted
MaxEmbLen == 3
MaxPosRows == 3
MaxEmbFormats == 2

-----------------------------------------------------------------------------
(* Python helpers. *)

None == <<>>
Some(v) == <<v>>
IsNone(o) == o = <<>>
Val(o) == o[1]

Min(a, b) == IF a <= b THEN a ELSE b
Max(a, b) == IF a >= b THEN a ELSE b

\* math.ceil(a / b) for integers a >= 0, b >= 1
CeilDiv(a, b) == (a + b - 1) \div b

\* seq[start:end] for 0 <= start, 0 <= end: the elements at Python indices
\* start .. min(end, len)-1
Slice(seq, start, end) ==
    LET hi == Min(end, Len(seq))
    IN  IF start >= hi THEN <<>>
        ELSE [i \in 1..(hi - start) |-> seq[start + i]]

\* numpy's dst[:n] = src for a one-dimensional dst and a list src: the
\* assignment is accepted when src has as many elements as the slice, or
\* exactly one element (which is broadcast); otherwise numpy raises ValueError
SliceLen(dstLen, n) == Min(n, dstLen)
CanAssign(dstLen, n, src) == Len(src) = SliceLen(dstLen, n) \/ Len(src) = 1
AssignPrefix(dst, n, src) ==
    [i \in 1..Len(dst) |->
        IF i <= SliceLen(Len(dst), n)
        THEN (IF Len(src) = 1 THEN src[1] ELSE src[i])
        ELSE dst[i]]

Zeros(n) == [i \in 1..n |-> 0]

-----------------------------------------------------------------------------
(* The encoder's constants (finetune.encoding.TextEncoder). *)

\* encoder.vocab_size: the position ids start right above the token ids
VocabSize == 10
PAD_TOKEN == "<PAD>"

Tokens == 1..MaxToken

\* sequences over S of length 0..n
SeqsUpTo(S, n) == UNION {[1..k -> S] : k \in 0..n}

-----------------------------------------------------------------------------
(* BasePipeline._array_format *)

\* mask[1:seq_length] = 1 on a zero mask of max_length entries
MaskZeroToo(max_length, seq_length) ==
    [i \in 1..max_length |-> IF i - 1 >= 0 /\ i - 1 < seq_length THEN 1 ELSE 0]

MaskOf(max_length, seq_length) ==
    [i \in 1..max_length |-> IF i - 1 >= 1 /\ i - 1 < seq_length THEN 1 ELSE 0]

\* x[:, 1] = np.arange(vocab_size, vocab_size + max_length)
Positions(max_length) == [i \in 1..max_length |-> VocabSize + (i - 1)]

\* The result of _array_format(encoded_output) under config.max_length.
\* encoded_output is [token_ids, labels]; labels is None or Some(sequence).
ArrayFormat(max_length, enc) ==
    LET seq_length == Len(enc.token_ids)
        labelled   == ~IsNone(enc.labels)
        truthy     == labelled /\ Len(Val(enc.labels)) > 0
        padded     == [i \in 1..max_length |-> PAD_TOKEN]
    IN  IF ~CanAssign(max_length, seq_length, enc.token_ids)
        THEN [raised |-> "ValueError"]
        ELSE IF truthy /\ ~CanAssign(max_length, seq_length, Val(enc.labels))
        THEN [raised |-> "ValueError"]
        ELSE [raised |-> "no",
              tok    |-> AssignPrefix(Zeros(max_length), seq_length, enc.token_ids),
              pos    |-> Positions(max_length),
              mask   |-> MaskOf(max_length, seq_length),
              labels |-> IF ~labelled THEN None
                         ELSE IF truthy
                         THEN Some(AssignPrefix(padded, seq_length, Val(enc.labels)))
                         ELSE Some(padded)]

\* the encoded outputs handed to the formatter: any tokens, with or without
\* one label per token
Encodings(n) ==
    {[token_ids |-> t, labels |-> l] :
        t \in SeqsUpTo(Tokens, n),
        l \in {None}} \cup
    {[token_ids |-> t, labels |-> Some([i \in 1..Len(t) |-> "lab"])] :
        t \in SeqsUpTo(Tokens, n)}

Idle == [called |-> FALSE]

\* one call self._array_format(encoded_output) on the input drawn at the start
CallArrayFormat ==
    /\ ~fmt.called
    /\ fmt' = [fmt EXCEPT !.called = TRUE,
                          !.out = ArrayFormat(fmt.max_length, fmt.enc)]
    /\ UNCHANGED <<split, embed, chunks, vsettings, grid, config, model, pipeline, fs, engine, last>>

\* the parts of the state a harness does not use
IdleFormat == fmt = Idle
IdleChunks == chunks = Idle
IdleSettings == vsettings = Idle
IdleGrid == grid = Idle
IdleSplit == split = Idle
IdleEmbed == embed = Idle
IdleLifecycle ==
    /\ config = Idle
    /\ model = Idle
    /\ pipeline = Idle
    /\ fs = {}
    /\ engine = Idle
    /\ last = Idle

InitFormat ==
    /\ fmt \in {[called |-> FALSE, max_length |-> ml, enc |-> enc, out |-> Idle] :
                    ml \in 1..MaxLen, enc \in Encodings(MaxSeq)}
    /\ IdleChunks /\ IdleSettings /\ IdleGrid /\ IdleLifecycle /\ IdleSplit /\ IdleEmbed

NextFormat == CallArrayFormat

SpecFormat == InitFormat /\ [][NextFormat]_vars

\* C1: whatever the token count of the encoded input, _array_format returns
\* (never raises) arrays of exactly max_length rows and a mask of exactly
\* max_length entries, zero-padding short inputs and truncating long ones.
C1_ShapeInvariance ==
    fmt.called =>
        /\ fmt.out.raised = "no"
        /\ Len(fmt.out.tok) = fmt.max_length
        /\ Len(fmt.out.pos) = fmt.max_length
        /\ Len(fmt.out.mask) = fmt.max_length
        /\ \A i \in 1..fmt.max_length :
              fmt.out.tok[i] = IF i <= Len(fmt.enc.token_ids)
                               THEN fmt.enc.token_ids[i] ELSE 0

\* C2: for sequence_length <= max_length the mask is 0 at index 0 and at every
\* index >= sequence_length, 1 at the indices 1..sequence_length-1, and hence
\* all zero when sequence_length <= 1.
C2_Mask ==
    (fmt.called /\ Len(fmt.enc.token_ids) <= fmt.max_length) =>
        /\ fmt.out.raised = "no"
        /\ Len(fmt.out.mask) = fmt.max_length
        /\ \A k \in 0..(fmt.max_length - 1) :
              fmt.out.mask[k + 1] =
                  IF k >= 1 /\ k <= Len(fmt.enc.token_ids) - 1 THEN 1 ELSE 0
        /\ (Len(fmt.enc.token_ids) <= 1 =>
              \A k \in 0..(fmt.max_length - 1) : fmt.out.mask[k + 1] = 0)

\* a formatted input with an inner 1 in its mask and padding after it
C2_Witness ==
    /\ fmt.called
    /\ Len(fmt.enc.token_ids) = 2
    /\ fmt.max_length = 3
    /\ fmt.out.raised = "no"
    /\ fmt.out.mask = <<0, 1, 0>>

-----------------------------------------------------------------------------
(* BasePipeline._text_to_ids *)

\* Python's a // 3 (floor division, also for negative a)
FloorDiv3(a) == IF a >= 0 THEN a \div 3 ELSE -((2 - a) \div 3)

\* chunk_size = self.config.max_length - 2
ChunkSize(max_length) == max_length - 2

StepHalf(max_length) == IF ChunkSize(max_length) >= 0 THEN ChunkSize(max_length) \div 2 ELSE -1

\* step_size = chunk_size // 3
StepSize(max_length) == FloorDiv3(ChunkSize(max_length))

\* list(range(0, length, step)) for step /= 0
Starts(length, step) ==
    IF step < 0 \/ length <= 0 THEN <<>>
    ELSE [i \in 1..CeilDiv(length, step) |-> (i - 1) * step]

\* field_value[start:end] for every field of the encoding that is not None
SliceEncoding(enc, start, end) ==
    [token_ids |-> Slice(enc.token_ids, start, end),
     labels    |-> IF IsNone(enc.labels) THEN None
                   ELSE Some(Slice(Val(enc.labels), start, end))]

\* encoder.encode_multi_input(Xs, max_length=m): the tokenizer is outside this
\* code; its result is any encoding of at most m tokens
EncodeMultiInput(m) == Encodings(Min(m, MaxChunkSeq))

\* one pass of the loop body, lines 181-189, for the start at position idx of
\* starts: the slice of every field and its formatting under the max_length
\* the configuration holds now
ChunkAt(g, idx) ==
    LET start == g.starts[idx]
        end   == start + g.chunk_size
        d     == SliceEncoding(g.enc, start, end)
    IN  [start |-> start, end |-> end, enc |-> d,
         arr |-> ArrayFormat(g.max_length, d)]

\* the generator runs from the top of the loop at position idx to its next
\* yield, to its end (StopIteration) or to the exception that ends it
RunToYield(g, idx) ==
    IF idx > Len(g.starts) THEN [g EXCEPT !.pc = "done"]
    ELSE LET chunk == ChunkAt(g, idx)
         IN  IF chunk.arr.raised /= "no"
             THEN [g EXCEPT !.pc = "raised", !.raised = chunk.arr.raised]
             ELSE [g EXCEPT !.pc = "suspended", !.idx = idx + 1,
                            !.yielded = Append(g.yielded, chunk)]

\* The first next() on the generator _text_to_ids(X) returns: nothing of the
\* body has run before it.  With chunk_long_sequences set (len(Xs) == 1 always
\* holds: _format_for_encoding returns [[X]]) chunk_size, step_size and starts
\* are computed here, once, from the max_length of this moment, and the text is
\* encoded without truncation; otherwise it is encoded under max_length and
\* the one array is formatted.
StartTextToIds ==
    /\ chunks.pc = "created"
    /\ IF chunks.chunk_long_sequences
       THEN \E enc \in Encodings(MaxChunkSeq) :
              LET chunk_size == ChunkSize(chunks.max_length)
                  step_size  == StepSize(chunks.max_length)
                  g == [chunks EXCEPT !.start_max_length = chunks.max_length,
                                      !.chunk_size = chunk_size,
                                      !.enc = enc]
              IN  chunks' =
                    IF step_size = 0
                    THEN \* range() arg 3 must not be zero
                         [g EXCEPT !.pc = "raised", !.raised = "ValueError"]
                    ELSE RunToYield([g EXCEPT !.starts =
                                        Starts(Len(enc.token_ids), step_size)], 1)
       ELSE \E enc \in EncodeMultiInput(chunks.max_length) :
              LET arr == ArrayFormat(chunks.max_length, enc)
                  g == [chunks EXCEPT !.start_max_length = chunks.max_length,
                                      !.enc = enc]
              IN  chunks' =
                    IF arr.raised /= "no"
                    THEN [g EXCEPT !.pc = "raised", !.raised = arr.raised]
                    ELSE [g EXCEPT !.pc = "suspended",
                                   !.yielded = <<[start |-> 0, end |-> chunks.max_length,
                                                  enc |-> enc, arr |-> arr]>>]
    /\ UNCHANGED <<split, embed, fmt, vsettings, grid, config, model, pipeline, fs, engine, last>>

\* a later next(): the generator resumes after the yield of line 189 (or of
\* line 197, after which the body ends)
ResumeTextToIds ==
    /\ chunks.pc = "suspended"
    /\ chunks' = IF chunks.chunk_long_sequences
                 THEN RunToYield(chunks, chunks.idx)
                 ELSE [chunks EXCEPT !.pc = "done"]
    /\ UNCHANGED <<split, embed, fmt, vsettings, grid, config, model, pipeline, fs, engine, last>>

\* the values config.max_length is reassigned to
OtherMaxLengths == 1..(MaxChunkLen + 2)

\* between two next() calls the consumer or another caller assigns
\* config.max_length; the generator's locals keep their values
SetMaxLength ==
    /\ chunks.pc \in {"created", "suspended"}
    /\ chunks.changes < MaxChunkChanges
    /\ \E ml \in OtherMaxLengths \ {chunks.max_length} :
          chunks' = [chunks EXCEPT !.max_length = ml,
                                   !.changes = chunks.changes + 1]
    /\ UNCHANGED <<split, embed, fmt, vsettings, grid, config, model, pipeline, fs, engine, last>>

\* the generator object _text_to_ids(X) returns, before its first next()
InitChunk ==
    /\ chunks \in
          {[pc |-> "created", chunk_long_sequences |-> c,
            max_length |-> ml, changes |-> 0, start_max_length |-> 0,
            chunk_size |-> 0, starts |-> <<>>, idx |-> 1,
            enc |-> [token_ids |-> <<>>, labels |-> None],
            yielded |-> <<>>, raised |-> "no"] :
                c \in BOOLEAN, ml \in 1..MaxChunkLen}
    /\ IdleFormat /\ IdleSettings /\ IdleGrid /\ IdleLifecycle /\ IdleSplit /\ IdleEmbed

NextChunk == StartTextToIds \/ ResumeTextToIds \/ SetMaxLength

SpecChunk == InitChunk /\ [][NextChunk]_vars

ChunkN == Len(chunks.enc.token_ids)
ChunkW == chunks.start_max_length - 2
ChunkS == (chunks.start_max_length - 2) \div 3

\* the generator was started with chunking and a stride S >= 1, that is with
\* max_length >= 5
ChunkedStart ==
    /\ chunks.pc /= "created"
    /\ chunks.chunk_long_sequences
    /\ chunks.start_max_length >= 5

\* the chunked runs with a stride S >= 1 that were exhausted
ChunkedRun == ChunkedStart /\ chunks.pc = "done"

\* the token indices chunk i holds
ChunkIdx(i) ==
    {k \in 0..(ChunkN - 1) :
        /\ k >= chunks.yielded[i].start
        /\ k < chunks.yielded[i].start + Len(chunks.yielded[i].enc.token_ids)}
ChunkOverlap(i) == Cardinality(ChunkIdx(i) \cap ChunkIdx(i + 1))

\* the number of chunks is len(range(0, N, S)), chunk i holds the tokens from
\* its start on, and together the chunks hold every index of [0, N)
ChunkCountAndCover ==
    /\ Len(chunks.yielded) = CeilDiv(ChunkN, ChunkS)
    /\ \A i \in 1..Len(chunks.yielded) :
          /\ chunks.yielded[i].start = (i - 1) * ChunkS
          /\ \A k \in ChunkIdx(i) :
                chunks.yielded[i].enc.token_ids[k - chunks.yielded[i].start + 1]
                    = chunks.enc.token_ids[k + 1]
    /\ UNION {ChunkIdx(i) : i \in 1..Len(chunks.yielded)} = 0..(ChunkN - 1)

\* C3 (as claimed): the chunk count is len(range(0, N, S)), the chunks cover
\* [0, N), and every two consecutive chunks overlap in exactly W-S tokens, the
\* only exception allowed being the pair that ends with the last chunk.
C3_OverlapAllButLastPair ==
    /\ (ChunkedStart /\ chunks.changes = 0) => chunks.pc /= "raised"
    /\ ChunkedRun =>
        /\ ChunkCountAndCover
        /\ \A i \in 1..(Len(chunks.yielded) - 2) : ChunkOverlap(i) = ChunkW - ChunkS

\* C3 (amended): the chunk count is len(range(0, N, S)), the chunks cover
\* [0, N), and two consecutive chunks overlap in exactly W-S tokens whenever
\* the earlier one is a full window (start + W <= N); a pair whose earlier
\* chunk is cut short by the end of the sequence overlaps in the whole later
\* chunk, N - (start + S) tokens, which is fewer than W-S.  A run during which
\* max_length is not reassigned never raises.
C3_OverlapOfFullWindows ==
    /\ (ChunkedStart /\ chunks.changes = 0) => chunks.pc /= "raised"
    /\ ChunkedRun =>
        /\ ChunkCountAndCover
        /\ \A i \in 1..(Len(chunks.yielded) - 1) :
              IF chunks.yielded[i].start + ChunkW <= ChunkN
              THEN ChunkOverlap(i) = ChunkW - ChunkS
              ELSE /\ ChunkOverlap(i) = ChunkN - chunks.yielded[i + 1].start
                   /\ ChunkOverlap(i) < ChunkW - ChunkS

\* a chunked run with a full-window pair and a cut-short pair that is not the
\* last pair: max_length 8 (W = 6, S = 2) over 7 tokens gives 4 chunks
C3_Witness ==
    /\ ChunkedRun
    /\ chunks.start_max_length = 8
    /\ ChunkN = 7
    /\ Len(chunks.yielded) = 4
    /\ ChunkOverlap(1) = 4
    /\ ChunkOverlap(2) = 3

-----------------------------------------------------------------------------
(* BaseModel.validation_settings *)

\* sys.maxsize, the "never validate" interval.  It is 2^63 - 1 in CPython; the
\* model uses the largest integer of the checker, which is likewise larger
\* than every interval the arithmetic below can produce.
sys_maxsize == 2147483647

\* int(0.05 * n_examples): the double 0.05 is slightly above 1/20 and the
\* product rounds to the nearest double, so truncation gives n \div 20 (checked
\* against CPython for n up to 200000)
FivePercent(n_examples) == n_examples \div 20

AutoValSizeOffByOne(n_examples) ==
    IF n_examples <= 50 THEN 0
    ELSE Min(100, Max(5, FivePercent(n_examples)))

\* the automatic validation size, lines 222-226
AutoValSize(n_examples) ==
    IF n_examples < 50 THEN 0
    ELSE Min(100, Max(5, FivePercent(n_examples)))

\* 4 * int(math.ceil(val_size / batch_size)) or sys.maxsize
AutoValInterval(val_size, batch_size) ==
    LET v == 4 * CeilDiv(val_size, batch_size)
    IN  IF v /= 0 THEN v ELSE sys_maxsize

\* validation_settings(n_examples, batch_size) under the configured val_size
\* and val_interval (each None or a number)
ValidationSettings(cfg_val_size, cfg_val_interval, n_examples, batch_size) ==
    IF ~IsNone(cfg_val_size) /\ ~IsNone(cfg_val_interval)
    THEN [val_size |-> Val(cfg_val_size), val_interval |-> Val(cfg_val_interval)]
    ELSE LET val_size == IF IsNone(cfg_val_size) THEN AutoValSize(n_examples)
                         ELSE Val(cfg_val_size)
         IN  [val_size |-> val_size,
              val_interval |-> IF IsNone(cfg_val_interval)
                               THEN AutoValInterval(val_size, batch_size)
                               ELSE Val(cfg_val_interval)]

\* the configured values the harness draws from
ConfiguredValSizes == {None, Some(0), Some(2), Some(20)}
ConfiguredValIntervals == {None, Some(5)}

CallValidationSettings ==
    /\ ~vsettings.called
    /\ vsettings' = [vsettings EXCEPT
                        !.called = TRUE,
                        !.out = ValidationSettings(vsettings.val_size, vsettings.val_interval,
                                                   vsettings.n_examples, vsettings.batch_size)]
    /\ UNCHANGED <<split, embed, fmt, chunks, grid, config, model, pipeline, fs, engine, last>>

InitSettings ==
    /\ vsettings \in {[called |-> FALSE, val_size |-> vs, val_interval |-> vi,
                       n_examples |-> n, batch_size |-> b, out |-> Idle] :
                          vs \in ConfiguredValSizes, vi \in ConfiguredValIntervals,
                          n \in 0..MaxExamples, b \in 1..MaxBatch}
    /\ IdleFormat /\ IdleChunks /\ IdleGrid /\ IdleLifecycle /\ IdleSplit /\ IdleEmbed

NextSettings == CallValidationSettings

SpecSettings == InitSettings /\ [][NextSettings]_vars

\* C4: validation_settings returns the configured pair verbatim when both are
\* configured; otherwise val_size is the configured value if set, else 0 for
\* n_examples < 50, else max(5, min(100, floor(5% of n_examples))); and
\* val_interval is the configured value if set, else 4*ceil(val_size/batch_size)
\* when val_size > 0 and sys.maxsize when val_size = 0.
C4_ValidationSettings ==
    vsettings.called =>
        LET n  == vsettings.n_examples
            b  == vsettings.batch_size
            vs == vsettings.out.val_size
            vi == vsettings.out.val_interval
        IN  /\ vs = IF ~IsNone(vsettings.val_size) THEN Val(vsettings.val_size)
                    ELSE IF n < 50 THEN 0
                    ELSE Max(5, Min(100, (5 * n) \div 100))
            /\ vi = IF ~IsNone(vsettings.val_interval) THEN Val(vsettings.val_interval)
                    ELSE IF vs > 0
                    THEN 4 * (IF vs % b = 0 THEN vs \div b ELSE vs \div b + 1)
                    ELSE sys_maxsize

\* an automatic size at its lower edge with a rounded-up interval: 50 examples
\* give 5% = 2, raised to 5; 5 validation examples in batches of 2 give 4*3
C4_Witness ==
    /\ vsettings.called
    /\ IsNone(vsettings.val_size) /\ IsNone(vsettings.val_interval)
    /\ vsettings.n_examples = 50
    /\ vsettings.batch_size = 2
    /\ vsettings.out = [val_size |-> 5, val_interval |-> 12]

-----------------------------------------------------------------------------
(* Configuration entries and what finetune writes back into them. *)

\* a configuration entry is a plain value or a GridSearchable set of candidates
Plain(v) == [kind |-> "value", items |-> <<v>>]
GridSearchable(cands) == [kind |-> "grid", items |-> cands]

\* the number of examples labelled l in Y
CountOf(Y, l) == Cardinality({i \in 1..Len(Y) : Y[i] = l})
LabelsOf(Y) == {Y[i] : i \in 1..Len(Y)}
MaxCount(Y) ==
    CHOOSE c \in 0..Len(Y) :
        /\ \A l \in LabelsOf(Y) : CountOf(Y, l) <= c
        /\ (LabelsOf(Y) = {} \/ \E l \in LabelsOf(Y) : CountOf(Y, l) = c)

\* compute_class_weights(class_weights, Y): no weights when none are
\* configured, else a weight per class seen in Y, the ratio of the largest
\* class count to the class's own count (kept as the pair <<max, count>>)
ComputeClassWeights(class_weights, Y) ==
    IF IsNone(class_weights) THEN None
    ELSE Some({<<l, MaxCount(Y), CountOf(Y, l)>> : l \in LabelsOf(Y)})

\* _post_data_initialization(Y) for a materialized Y: what it writes into the
\* configuration (lines 81 and 100)
ConfigAfterFit(cfg, Y) ==
    [cfg EXCEPT !.dataset_size = Len(Y),
                !.class_weights = ComputeClassWeights(cfg.class_weights, Y)]

-----------------------------------------------------------------------------
(* BaseModel.finetune_grid_search and finetune_grid_search_cv *)

\* the configuration's keys, in the order the configuration holds them
ParamKeys == <<"lr", "l2_reg">>

\* config.get_grid_searchable(): the grid-searchable keys, in that order
RECURSIVE SearchableFrom(_, _)
SearchableFrom(cfg, k) ==
    IF k > Len(ParamKeys) THEN <<>>
    ELSE (IF cfg.params[ParamKeys[k]].kind = "grid" THEN <<ParamKeys[k]>> ELSE <<>>)
         \o SearchableFrom(cfg, k + 1)
RangedKeys(cfg) == SearchableFrom(cfg, 1)
RangedIterators(cfg) ==
    [k \in 1..Len(RangedKeys(cfg)) |-> cfg.params[RangedKeys(cfg)[k]].items]

RECURSIVE Concat(_)
Concat(ls) == IF ls = <<>> THEN <<>> ELSE Head(ls) \o Concat(Tail(ls))

\* itertools.product(*pools): result = [[]], then for each pool
\* result = [x + [y] for x in result for y in pool]
RECURSIVE ProductFrom(_, _, _)
ProductFrom(pools, k, result) ==
    IF k > Len(pools) THEN result
    ELSE ProductFrom(pools, k + 1,
            Concat([i \in 1..Len(result) |->
                      [j \in 1..Len(pools[k]) |-> Append(result[i], pools[k][j])]]))

ProductLeftFastest(pools) ==
    LET RECURSIVE Go(_, _)
        Go(k, result) ==
            IF k > Len(pools) THEN result
            ELSE Go(k + 1,
                    Concat([j \in 1..Len(pools[k]) |->
                              [i \in 1..Len(result) |-> Append(result[i], pools[k][j])]]))
    IN  Go(1, << <<>> >>)

Product(pools) == ProductFrom(pools, 1, << <<>> >>)

\* config_ = deepcopy(config); config_.update(dict(zip(ranged_keys, grid_item)))
ConfigFor(cfg, grid_item) ==
    LET keys == RangedKeys(cfg)
    IN  [cfg EXCEPT !.params =
            [key \in DOMAIN cfg.params |->
                IF \E k \in 1..Len(keys) : keys[k] = key
                THEN Plain(grid_item[CHOOSE k \in 1..Len(keys) : keys[k] = key])
                ELSE cfg.params[key]]]

\* one trial: a fresh instance on the copied configuration is finetuned on the
\* training split (which writes dataset_size and class_weights into the copy),
\* evaluated, and the pair (config_, score) appended
TrialResult(cfg, grid_item, trainY, score) ==
    [config |-> ConfigAfterFit(ConfigFor(cfg, grid_item), trainY), score |-> score]

\* max(results, key=lambda x: x[1]): the first result of the highest score
FirstBest(results) ==
    CHOOSE i \in 1..Len(results) :
        /\ \A j \in 1..Len(results) : results[j].score <= results[i].score
        /\ \A j \in 1..(i - 1) : results[j].score < results[i].score

\* the aggregation of finetune_grid_search_cv, lines 472-483: the per-split
\* result lists are zipped by position; each group's configurations must
\* equal the first one's, and its scores are averaged (the mean sum_res/n_res
\* is kept as the pair <<sum_res, n_res>>)
RECURSIVE SumScores(_, _, _)
SumScores(all, pos, k) ==
    IF k = 0 THEN 0 ELSE all[k][pos].score + SumScores(all, pos, k - 1)

ZipLen(all) ==
    IF all = <<>> THEN 0
    ELSE CHOOSE n \in 0..Len(all[1]) :
            /\ \A k \in 1..Len(all) : Len(all[k]) >= n
            /\ \E k \in 1..Len(all) : Len(all[k]) = n

Aggregate(all) ==
    IF \E pos \in 1..ZipLen(all), k \in 1..Len(all) :
            all[k][pos].config /= all[1][pos].config
    THEN [raised |-> "AssertionError", results |-> <<>>]
    ELSE [raised |-> "no",
          results |-> [pos \in 1..ZipLen(all) |->
                         [config |-> all[1][pos].config,
                          score |-> <<SumScores(all, pos, Len(all)), Len(all)>>]]]

\* max(aggregated_results, key=lambda x: x[1]) on means of equal denominators
FirstBestMean(results) ==
    CHOOSE i \in 1..Len(results) :
        /\ \A j \in 1..Len(results) : results[j].score[1] <= results[i].score[1]
        /\ \A j \in 1..(i - 1) : results[j].score[1] < results[i].score[1]

Scores == 0..MaxScore

\* the targets of the search and the training splits train_test_split can
\* draw from them with test_size = 1: every one example may be held out
GridY == <<"a", "a", "b">>
TrainSplits == {[i \in 1..(Len(GridY) - 1) |-> IF i < h THEN GridY[i] ELSE GridY[i + 1]] :
                    h \in 1..Len(GridY)}

\* the start of one finetune_grid_search call: config.val_size = 0.0 is
\* written into the caller's configuration, the data is split at random and
\* the grid enumerated
GridSplit ==
    /\ grid.pc = "start"
    /\ \E trainY \in TrainSplits :
          grid' = [grid EXCEPT !.pc = "trials",
                               !.config = [grid.config EXCEPT !.val_size = Some(0)],
                               !.trainY = trainY,
                               !.grid_gen = Product(RangedIterators(grid.config)),
                               !.results = <<>>]
    /\ UNCHANGED <<split, embed, fmt, chunks, vsettings, config, model, pipeline, fs, engine, last>>

\* one iteration of the loop over grid_gen
GridTrial ==
    /\ grid.pc = "trials"
    /\ Len(grid.results) < Len(grid.grid_gen)
    /\ \E score \in Scores :
          grid' = [grid EXCEPT !.results =
                      Append(grid.results,
                             TrialResult(grid.config, grid.grid_gen[Len(grid.results) + 1],
                                         grid.trainY, score))]
    /\ UNCHANGED <<split, embed, fmt, chunks, vsettings, config, model, pipeline, fs, engine, last>>

\* the end of one finetune_grid_search call.  Called directly it returns the
\* results or the best configuration (max of no results raises ValueError);
\* called by finetune_grid_search_cv (return_all=True) it hands its results to
\* the loop over the splits.
GridReturn ==
    /\ grid.pc = "trials"
    /\ Len(grid.results) = Len(grid.grid_gen)
    /\ grid' =
          IF grid.mode = "gs"
          THEN IF grid.return_all
               THEN [grid EXCEPT !.pc = "done", !.out = grid.results]
               ELSE IF grid.results = <<>>
               THEN [grid EXCEPT !.pc = "done", !.raised = "ValueError"]
               ELSE [grid EXCEPT !.pc = "done",
                                 !.out = <<grid.results[FirstBest(grid.results)].config>>]
          ELSE [grid EXCEPT !.all = Append(grid.all, grid.results),
                            !.pc = IF Len(grid.all) + 1 < grid.n_splits
                                   THEN "start" ELSE "aggregate"]
    /\ UNCHANGED <<split, embed, fmt, chunks, vsettings, config, model, pipeline, fs, engine, last>>

\* finetune_grid_search_cv after its n_splits searches: zip, check, average
CvAggregate ==
    /\ grid.pc = "aggregate"
    /\ LET agg == Aggregate(grid.all)
       IN  grid' =
              IF agg.raised /= "no"
              THEN [grid EXCEPT !.pc = "done", !.raised = agg.raised]
              ELSE IF grid.return_all
              THEN [grid EXCEPT !.pc = "done", !.out = agg.results]
              ELSE IF agg.results = <<>>
              THEN [grid EXCEPT !.pc = "done", !.raised = "ValueError"]
              ELSE [grid EXCEPT !.pc = "done",
                                !.out = <<agg.results[FirstBestMean(agg.results)].config>>]
    /\ UNCHANGED <<split, embed, fmt, chunks, vsettings, config, model, pipeline, fs, engine, last>>

\* a caller's configuration
GridConfig(lr, l2, cw) ==
    [params |-> [lr |-> lr, l2_reg |-> l2],
     val_size |-> None, dataset_size |-> 0, class_weights |-> cw]

ClassWeightSettings == {None, Some("linear")}

\* the grids searched directly: 3 x 2, 2 x 2, one searchable key, none, and
\* one with an empty candidate set
DirectGrids ==
    {<<GridSearchable(<<1, 2, 3>>), GridSearchable(<<10, 20>>)>>,
     <<GridSearchable(<<1, 2>>), GridSearchable(<<20, 10>>)>>,
     <<Plain(1), GridSearchable(<<10, 20>>)>>,
     <<Plain(1), Plain(10)>>,
     <<GridSearchable(<<>>), GridSearchable(<<10, 20>>)>>}

\* the grids searched under cross-validation
CvGrids ==
    {<<GridSearchable(<<1, 2>>), Plain(10)>>,
     <<GridSearchable(<<1>>), GridSearchable(<<10, 20>>)>>,
     <<Plain(1), Plain(10)>>}

GridStart(mode, g, cw, n_splits, return_all) ==
    [mode |-> mode, pc |-> "start", config |-> GridConfig(g[1], g[2], cw),
     n_splits |-> n_splits, return_all |-> return_all,
     trainY |-> <<>>, grid_gen |-> <<>>, results |-> <<>>, all |-> <<>>,
     out |-> <<>>, raised |-> "no"]

InitGrid ==
    /\ grid \in {GridStart("gs", g, cw, 1, ra) :
                    g \in DirectGrids, cw \in ClassWeightSettings, ra \in BOOLEAN}
    /\ IdleFormat /\ IdleChunks /\ IdleSettings /\ IdleLifecycle /\ IdleSplit /\ IdleEmbed

NextGrid == GridSplit \/ GridTrial \/ GridReturn

SpecGrid == InitGrid /\ [][NextGrid]_vars

InitGridCV ==
    /\ grid \in {GridStart("cv", g, cw, n, ra) :
                    g \in CvGrids, cw \in ClassWeightSettings,
                    n \in 1..MaxSplits, ra \in BOOLEAN}
    /\ IdleFormat /\ IdleChunks /\ IdleSettings /\ IdleLifecycle /\ IdleSplit /\ IdleEmbed

NextGridCV == GridSplit \/ GridTrial \/ GridReturn \/ CvAggregate

SpecGridCV == InitGridCV /\ [][NextGridCV]_vars

\* the size of key number p's candidate set in the searched configuration (1
\* for a key that is not grid-searchable), and the number of combinations of
\* the keys after it
CandCount(p) ==
    IF grid.config.params[ParamKeys[p]].kind = "grid"
    THEN Len(grid.config.params[ParamKeys[p]].items) ELSE 1
RECURSIVE CombosAfter(_)
CombosAfter(p) == IF p >= Len(ParamKeys) THEN 1 ELSE CandCount(p + 1) * CombosAfter(p + 1)
CombosTotal == CandCount(1) * CombosAfter(1)

\* the value of key number p in combination number idx (from 0) of the
\* Cartesian product, the last key varying fastest
ComboValue(p, idx) ==
    grid.config.params[ParamKeys[p]].items[((idx \div CombosAfter(p)) % CandCount(p)) + 1]

\* C5: finetune_grid_search with return_all=True returns exactly one
\* (config, score) pair per element of the Cartesian product of the candidate
\* sets, in the product's order, and each pair's config holds exactly that
\* combination's values.
C5_GridProduct ==
    (grid.mode = "gs" /\ grid.pc = "done" /\ grid.return_all) =>
        /\ grid.raised = "no"
        /\ Len(grid.out) = CombosTotal
        /\ \A idx \in 0..(Len(grid.out) - 1), p \in 1..Len(ParamKeys) :
              grid.out[idx + 1].config.params[ParamKeys[p]] = Plain(ComboValue(p, idx))

\* the 3 x 2 grid searched to the end: six pairs, the fourth is (2, 20)
C5_Witness ==
    /\ grid.mode = "gs" /\ grid.pc = "done" /\ grid.return_all
    /\ grid.config.params.lr = GridSearchable(<<1, 2, 3>>)
    /\ grid.config.params.l2_reg = GridSearchable(<<10, 20>>)
    /\ Len(grid.out) = 6
    /\ grid.out[4].config.params = [lr |-> Plain(2), l2_reg |-> Plain(20)]

\* C6: finetune_grid_search_cv with n_splits = k never fails on a correctly
\* aligned run (the configurations of one grid combination compare equal
\* across the splits), and with return_all=True it returns one entry per grid
\* combination whose score is the mean of that combination's k scores.
C6_CvMean ==
    (grid.mode = "cv" /\ grid.pc = "done") =>
        /\ grid.raised /= "AssertionError"
        /\ \A pos \in 1..CombosTotal, k \in 1..grid.n_splits :
              grid.all[k][pos].config = grid.all[1][pos].config
        /\ (grid.return_all =>
              /\ grid.raised = "no"
              /\ Len(grid.out) = CombosTotal
              /\ \A pos \in 1..CombosTotal :
                    /\ grid.out[pos].score[2] = grid.n_splits
                    /\ grid.out[pos].score[1] = SumScores(grid.all, pos, grid.n_splits))

-----------------------------------------------------------------------------
(* The model instance: BaseModel.__init__, _initialize, get_estimator *)

\* the directory tempfile.mkdtemp(prefix="Finetune") creates, and the one
\* os.path.join(tensorboard_folder, str(time.time())) names
TempDir == "Finetune_tmp"
TensorboardFolder == "tb"
TensorboardRun == "tb/time"

\* BasePipeline.__init__: no label encoder, no target_dim; the attribute
\* rebuild is not created here (it first appears at line 96), so it is
\* missing (None) until then
NewPipeline ==
    [label_encoder |-> 0, target_dim |-> None, rebuild |-> None]

NoCall ==
    [op |-> "none", raised |-> "no", built |-> FALSE, trained |-> FALSE,
     num_steps |-> 0, eval_steps |-> None, gen_steps |-> 0, args |-> <<>>,
     before |-> <<>>]

\* what a call leaves in `last`: the operation, its arguments, the state
\* before it and how it ended
Call(op, args) ==
    [NoCall EXCEPT !.op = op, !.args = args,
                   !.before = [estimator_ |-> model.estimator_,
                               pipeline |-> pipeline,
                               dataset_size |-> config.dataset_size,
                               config |-> config,
                               fs |-> fs]]

\* the caller holds the instance and the interpreter is running: the
\* instance's methods can be called
Usable ==
    /\ model.state = "ready"
    /\ model.referenced
    /\ model.interpreter = "running"

\* __init__ (lines 60-71) and _initialize (lines 77-88).  When __init__
\* raises, the caller gets no instance; the exit handler registered at line
\* 60 still holds it.
Construct ==
    /\ last.op = "none"
    /\ model.state = "unconstructed"
    /\ IF config.subset_and_embeddings
       THEN \* line 68: raised after atexit.register, before _initialize
            /\ model' = [model EXCEPT !.state = "failed", !.atexit = TRUE,
                                      !.referenced = FALSE]
            /\ last' = [Call("init", <<>>) EXCEPT !.raised = "ValueError"]
            /\ UNCHANGED <<pipeline, fs>>
       ELSE /\ pipeline' = NewPipeline
            /\ IF ~IsNone(config.tensorboard_folder)
               THEN /\ model' = [model EXCEPT !.state = "ready", !.atexit = TRUE,
                                              !.referenced = TRUE,
                                              !.estimator_ = 0,
                                              !.estimator_dir = Some(TensorboardRun),
                                              !.has_cleanup_glob = TRUE,
                                              !.cleanup_glob = None]
                    /\ fs' = fs \cup {TensorboardRun}
               ELSE /\ model' = [model EXCEPT !.state = "ready", !.atexit = TRUE,
                                              !.referenced = TRUE,
                                              !.estimator_ = 0,
                                              !.estimator_dir = Some(TempDir),
                                              !.has_cleanup_glob = TRUE,
                                              !.cleanup_glob = Some(TempDir)]
                    /\ fs' = fs \cup {TempDir}
            /\ last' = Call("init", <<>>)
    /\ UNCHANGED <<split, embed, fmt, chunks, vsettings, grid, config, engine>>

\* get_estimator(force_build_lm), lines 173-211, on the instance m with
\* pipeline p when `builds` engines have been built so far: the condition of
\* line 174 is evaluated left to right, and reading input_pipeline.rebuild
\* raises AttributeError when the attribute was never set.  A new engine gets
\* the next number; it has a target head when target_dim is known.
GetEstimator(m, p, builds, force_build_lm) ==
    IF m.estimator_ = 0
    THEN [raised |-> "no", built |-> TRUE, estimator_ |-> builds + 1]
    ELSE IF IsNone(p.rebuild)
    THEN [raised |-> "AttributeError", built |-> FALSE, estimator_ |-> m.estimator_]
    ELSE IF Val(p.rebuild) \/ force_build_lm
    THEN [raised |-> "no", built |-> TRUE, estimator_ |-> builds + 1]
    ELSE [raised |-> "no", built |-> FALSE, estimator_ |-> m.estimator_]

EngineAfter(est, p) ==
    IF est.built
    THEN [builds |-> est.estimator_, target_head |-> ~IsNone(p.target_dim)]
    ELSE engine

-----------------------------------------------------------------------------
(* BaseModel.finetune *)

\* Xs and Y as finetune receives them.  Xs is a list of n texts or a
\* zero-argument callable yielding n texts; Y is None, a list of labels, or a
\* callable yielding labels whose result has a len() or has none.
ListXs(n) == [kind |-> "list", n |-> n]
GenXs(n) == [kind |-> "callable", n |-> n]
ListY(labels) == Some([kind |-> "list", labels |-> labels, has_len |-> TRUE])
GenY(labels, has_len) == Some([kind |-> "callable", labels |-> labels, has_len |-> has_len])

\* the targets: n >= 1 labels, the first "a" and the others "b"
Targets == {[k \in 1..n |-> IF k = 1 THEN "a" ELSE "b"] : n \in 1..MaxN}

FinetuneInputs ==
    {<<ListXs(n), None>> : n \in 0..MaxN}
    \cup {<<ListXs(n), ListY(y)>> : n \in 0..MaxN, y \in Targets}
    \cup {<<GenXs(MaxN), None>>}
    \cup {<<GenXs(Len(y)), GenY(y, h)>> : y \in Targets, h \in BOOLEAN}

LengthCheckOff(Xs, Y) == FALSE

\* line 129: not callable(Xs) and Y is not None and len(Xs) != len(Y)
LengthMismatch(Xs, Y) ==
    /\ Xs.kind = "list"
    /\ ~IsNone(Y)
    /\ Xs.n /= Len(Val(Y).labels)

\* label_encoder.target_dim after fit_transform(Y_fit): the number of classes
TargetDim(Y_fit) == Some(Cardinality(LabelsOf(Y_fit)))

\* _post_data_initialization(Y), lines 77-100: the pipeline after it
PipelineAfterFit(p, Y, fit_no) ==
    LET target_dim == TargetDim(Y.labels)
    IN  [p EXCEPT !.label_encoder = fit_no,
                  !.rebuild = IF target_dim /= p.target_dim /\ IsNone(p.target_dim)
                              THEN Some(TRUE) ELSE p.rebuild,
                  !.target_dim = target_dim]

\* and the configuration after it: dataset_size is len(Y) or len(Y()) where
\* that exists, and is left as it was for a generator without a length
ConfigAfterPostData(cfg, Y) ==
    [cfg EXCEPT !.dataset_size = IF Y.has_len THEN Len(Y.labels) ELSE cfg.dataset_size,
                !.class_weights = ComputeClassWeights(cfg.class_weights, Y.labels)]

\* line 148: int(math.ceil(math.ceil(dataset_size / batch_size)) / max(1, len(visible_gpus)))
StepsPerEpoch(dataset_size, batch_size, gpus) ==
    CeilDiv(dataset_size, batch_size) \div Max(1, gpus)

\* finetune(Xs, Y, batch_size), lines 128-171, as one step
Finetune ==
    /\ last.op = "none"
    /\ Usable
    /\ \E in \in FinetuneInputs, bs_arg \in {None} \cup {Some(b) : b \in 1..(MaxCfgBatch + 1)} :
        LET Xs == in[1]
            Y  == in[2]
            call == Call("finetune", <<Xs, Y, bs_arg>>)
        IN  IF LengthMismatch(Xs, Y)
            THEN /\ last' = [call EXCEPT !.raised = "FinetuneError"]
                 /\ UNCHANGED <<config, model, pipeline, engine>>
            ELSE
              LET batch_size == IF IsNone(bs_arg) THEN config.batch_size ELSE Val(bs_arg)
                  vs == ValidationSettings(
                            config.val_size, config.val_interval,
                            IF Xs.kind = "list" THEN Xs.n ELSE config.dataset_size,
                            batch_size)
                  \* get_train_input_fns: _post_data_initialization when Y is given
                  p1 == IF IsNone(Y) THEN pipeline
                        ELSE PipelineAfterFit(pipeline, Val(Y), pipeline.label_encoder + 1)
                  c1 == IF IsNone(Y) THEN config ELSE ConfigAfterPostData(config, Val(Y))
                  steps_per_epoch == StepsPerEpoch(c1.dataset_size, batch_size, c1.visible_gpus)
                  num_steps == steps_per_epoch * c1.n_epochs
                  est == GetEstimator(model, p1, engine.builds, FALSE)
              IN  /\ (~IsNone(Y) => pipeline.label_encoder < MaxFits)
                  /\ (est.built => engine.builds < MaxBuilds)
                  /\ config' = c1
                  /\ pipeline' = p1
                  /\ model' = [model EXCEPT !.estimator_ = est.estimator_]
                  /\ engine' = EngineAfter(est, p1)
                  /\ last' = IF est.raised /= "no"
                             THEN [call EXCEPT !.raised = est.raised]
                             ELSE [call EXCEPT
                                     !.built = est.built,
                                     !.trained = TRUE,
                                     !.num_steps = num_steps,
                                     !.eval_steps =
                                        IF vs.val_size > 0
                                        THEN Some(vs.val_size \div batch_size)
                                        ELSE None]
    /\ UNCHANGED <<split, embed, fmt, chunks, vsettings, grid, fs>>

-----------------------------------------------------------------------------
(* BaseModel._inferrence, predict, featurize *)

\* predict(Xs) and featurize(Xs): both go through _inferrence, which gets the
\* engine and runs it; predict then needs the label encoder's inverse_transform
Inference ==
    /\ last.op = "none"
    /\ Usable
    /\ \E mode \in {"predict", "featurize"} :
        LET call == Call(mode, <<>>)
            est  == GetEstimator(model, pipeline, engine.builds, FALSE)
        IN  /\ (est.built => engine.builds < MaxBuilds)
            /\ model' = [model EXCEPT !.estimator_ = est.estimator_]
            /\ engine' = EngineAfter(est, pipeline)
            /\ last' = IF est.raised /= "no"
                       THEN [call EXCEPT !.raised = est.raised]
                       ELSE IF mode = "predict" /\ pipeline.label_encoder = 0
                       THEN [call EXCEPT !.built = est.built, !.raised = "AttributeError"]
                       ELSE [call EXCEPT !.built = est.built]
    /\ UNCHANGED <<split, embed, fmt, chunks, vsettings, grid, config, pipeline, fs>>

-----------------------------------------------------------------------------
(* BaseModel.generate_text *)

\* ENCODER._encode([seed_text]): an EncodedOutput whose token_ids holds one
\* list of token ids per text (line 331 reads encoded.token_ids[0])
EncodeBatch(seed) == [type |-> "EncodedOutput", token_ids |-> <<seed>>]

\* Python's value == []: only an empty list equals the empty list; an
\* EncodedOutput is a namedtuple and a tuple never equals a list
EqualsEmptyList(v) == v.type = "list" /\ v.token_ids = <<>>

\* ENCODER.start, an id of the encoder's special tokens
StartToken == MaxToken + 1

\* the loop of lines 339-344 from index i on, after `steps` generation steps:
\* format the sequence, ask the engine for one step, append the predicted
\* token, stop at the end-of-sequence token.  The engine's predictions are
\* outside this code: it predicts the end token at step eos_at (0: never).
RECURSIVE GenLoop(_, _, _, _, _)
GenLoop(cfg_max_length, bound, i, steps, eos_at) ==
    IF i >= bound THEN [raised |-> "no", gen_steps |-> steps, length |-> i]
    ELSE IF ArrayFormat(cfg_max_length,
                        [token_ids |-> [k \in 1..i |-> 1], labels |-> None]).raised /= "no"
    THEN [raised |-> "ValueError", gen_steps |-> steps, length |-> i]
    ELSE IF eos_at = steps + 1
    THEN [raised |-> "no", gen_steps |-> steps + 1, length |-> i + 1]
    ELSE GenLoop(cfg_max_length, bound, i + 1, steps + 1, eos_at)

\* the encoded seed texts: 0..MaxSeed tokens (which tokens does not matter here)
SeedTexts == {[k \in 1..n |-> 1] : n \in 0..MaxSeed}

\* generate_text(seed_text, max_length, use_extra_toks), lines 307-349
GenerateText ==
    /\ last.op = "none"
    /\ Usable
    /\ \E seed \in SeedTexts,
          ml_arg \in {None} \cup {Some(m) : m \in 1..(MaxGenLen + MaxSeed + 2)},
          use_extra_toks \in BOOLEAN,
          eos_at \in 0..2 :
        LET call == Call("generate_text", <<seed, ml_arg, use_extra_toks>>)
            c1 == [config EXCEPT !.use_extra_toks = Some(use_extra_toks)]
            encoded == EncodeBatch(seed)
        IN  IF EqualsEmptyList(encoded) /\ ~use_extra_toks
            THEN /\ config' = c1
                 /\ last' = [call EXCEPT !.raised = "ValueError"]
                 /\ UNCHANGED <<model, engine>>
            ELSE
              LET start == IF use_extra_toks THEN <<StartToken>> ELSE <<>>
                  token_ids == start \o encoded.token_ids[1]
                  est == GetEstimator(model, pipeline, engine.builds, TRUE)
                  bound == (IF IsNone(ml_arg) THEN config.max_length ELSE Val(ml_arg)) - 2
                  loop == GenLoop(config.max_length, bound, Len(token_ids), 0, eos_at)
              IN  /\ (est.built => engine.builds < MaxBuilds)
                  /\ model' = [model EXCEPT !.estimator_ = est.estimator_]
                  /\ engine' = EngineAfter(est, pipeline)
                  /\ IF est.raised /= "no"
                     THEN /\ config' = c1
                          /\ last' = [call EXCEPT !.raised = est.raised]
                     ELSE IF loop.raised /= "no"
                     THEN /\ config' = c1
                          /\ last' = [call EXCEPT !.built = est.built,
                                                  !.gen_steps = loop.gen_steps,
                                                  !.raised = loop.raised]
                     ELSE \* del self.config["use_extra_toks"]
                          /\ config' = [c1 EXCEPT !.use_extra_toks = None]
                          /\ last' = [call EXCEPT !.built = est.built,
                                                  !.gen_steps = loop.gen_steps]
    /\ UNCHANGED <<split, embed, fmt, chunks, vsettings, grid, pipeline, fs>>

-----------------------------------------------------------------------------
(* BaseModel.__del__ *)

\* x is d or lies below it
Under(x, d) == x = d \/ (x = TensorboardRun /\ d = TensorboardFolder)

GlobNothing(pattern, disk) == {}

\* glob.glob(pattern) for a pattern without wildcards: the path if it exists
Glob(pattern, disk) == {d \in disk : d = pattern}

\* shutil.rmtree of every path in targets
RemoveTrees(disk, targets) == {x \in disk : ~\E d \in targets : Under(x, d)}

\* __del__, lines 490-496, on the instance m: the disk after it, or the
\* AttributeError of an instance whose _initialize never ran
Dispose(m, disk) ==
    IF ~m.has_cleanup_glob THEN [raised |-> "AttributeError", fs |-> disk]
    ELSE IF ~IsNone(m.cleanup_glob)
    THEN [raised |-> "no", fs |-> RemoveTrees(disk, Glob(Val(m.cleanup_glob), disk))]
    ELSE [raised |-> "no", fs |-> disk]

\* the explicit call m.__del__(): the directory is disposed of and the
\* instance stays as usable as before
Del ==
    /\ last.op = "none"
    /\ Usable
    /\ model.disposals < MaxDisposals
    /\ LET d == Dispose(model, fs)
       IN  /\ fs' = d.fs
           /\ last' = [Call("del", <<>>) EXCEPT !.raised = d.raised]
    /\ model' = [model EXCEPT !.disposals = model.disposals + 1]
    /\ UNCHANGED <<split, embed, fmt, chunks, vsettings, grid, config, pipeline, engine>>

\* the caller drops its last reference (del m, then a collection).  The exit
\* handler registered by __init__ is the bound method self.__del__ and keeps
\* the instance alive, so nothing runs; an instance without that
\* registration (one made by load) is collected and its __del__ runs.
Release ==
    /\ last.op = "none"
    /\ Usable
    /\ IF model.atexit
       THEN /\ model' = [model EXCEPT !.referenced = FALSE]
            /\ last' = Call("release", <<>>)
            /\ fs' = fs
       ELSE LET d == Dispose(model, fs)
            IN  /\ fs' = d.fs
                /\ last' = [Call("collect", <<>>) EXCEPT !.raised = d.raised]
                /\ model' = [model EXCEPT !.referenced = FALSE,
                                          !.state = "collected",
                                          !.disposals = model.disposals + 1]
    /\ UNCHANGED <<split, embed, fmt, chunks, vsettings, grid, config, pipeline, engine>>

\* interpreter exit, first part: the handler registered at line 60 runs
\* __del__ on the instance, released by the caller or not
AtExit ==
    /\ last.op = "none"
    /\ model.atexit
    /\ model.interpreter = "running"
    /\ LET d == Dispose(model, fs)
       IN  /\ fs' = d.fs
           /\ last' = [Call("atexit", <<>>) EXCEPT !.raised = d.raised]
    /\ model' = [model EXCEPT !.interpreter = "handlers_done",
                              !.disposals = model.disposals + 1]
    /\ UNCHANGED <<split, embed, fmt, chunks, vsettings, grid, config, pipeline, engine>>

\* interpreter exit, second part: at finalization, after the exit handlers,
\* the instance that is still alive is collected and its __del__ runs (once
\* more, when the handler has run it)
Finalize ==
    /\ last.op = "none"
    /\ model.state \in {"ready", "failed"}
    /\ model.interpreter = IF model.atexit THEN "handlers_done" ELSE "running"
    /\ LET d == Dispose(model, fs)
       IN  /\ fs' = d.fs
           /\ last' = [Call("finalize", <<>>) EXCEPT !.raised = d.raised]
    /\ model' = [model EXCEPT !.interpreter = "finalized",
                              !.state = "collected",
                              !.referenced = FALSE,
                              !.disposals = model.disposals + 1]
    /\ UNCHANGED <<split, embed, fmt, chunks, vsettings, grid, config, pipeline, engine>>

-----------------------------------------------------------------------------
(* BaseModel.save and BaseModel.load *)

\* the folder a model is saved to and loaded from
CheckpointDir == "ckpt"

\* save(path), lines 364-380: nothing for path None; otherwise
\* self.saver.save(self, os.path.abspath(path)), which writes the folder at
\* path, creating it when it does not exist.  The instance is unchanged.
Save ==
    /\ last.op = "none"
    /\ Usable
    /\ \E path \in {None, Some(CheckpointDir)} :
          /\ fs' = IF IsNone(path) THEN fs ELSE fs \cup {Val(path)}
          /\ last' = Call("save", <<path>>)
    /\ UNCHANGED <<split, embed, fmt, chunks, vsettings, grid, config, model, pipeline, engine>>

\* the input pipeline a saved instance was pickled with: that of an instance
\* never finetuned with targets, or of one that was
LoadedPipelines ==
    {NewPipeline,
     [label_encoder |-> 1, target_dim |-> Some(2), rebuild |-> Some(TRUE)]}

\* load(path), lines 383-394: saver.load(path) returns an instance with the
\* saved configuration and input pipeline, whose __init__ does not run (no
\* check of the options, no exit handler), and _initialize() gives it a
\* directory of its own, no engine and its cleanup_glob.  The folder at path
\* is one that a save has written, in this process or in an earlier one.
Load ==
    /\ last.op = "none"
    /\ model.state = "unconstructed"
    /\ CheckpointDir \in fs
    /\ \E p \in LoadedPipelines : pipeline' = p
    /\ IF ~IsNone(config.tensorboard_folder)
       THEN /\ model' = [model EXCEPT !.state = "ready", !.referenced = TRUE,
                                      !.estimator_ = 0,
                                      !.estimator_dir = Some(TensorboardRun),
                                      !.has_cleanup_glob = TRUE,
                                      !.cleanup_glob = None]
            /\ fs' = fs \cup {TensorboardRun}
       ELSE /\ model' = [model EXCEPT !.state = "ready", !.referenced = TRUE,
                                      !.estimator_ = 0,
                                      !.estimator_dir = Some(TempDir),
                                      !.has_cleanup_glob = TRUE,
                                      !.cleanup_glob = Some(TempDir)]
            /\ fs' = fs \cup {TempDir}
    /\ last' = Call("load", <<>>)
    /\ UNCHANGED <<split, embed, fmt, chunks, vsettings, grid, config, engine>>

-----------------------------------------------------------------------------
(* The life of one model instance. *)

\* the caller takes the result: the record of the call is dropped
Returned ==
    /\ last.op /= "none"
    /\ last' = NoCall
    /\ UNCHANGED <<split, embed, fmt, chunks, vsettings, grid, config, model, pipeline, fs, engine>>

\* the configurations whose entries are drawn from the given sets
Configurations(sizes, batches, epochs, gpus, val_sizes, folders, contradictory) ==
    [dataset_size : sizes,
     batch_size : batches,
     n_epochs : epochs,
     visible_gpus : gpus,
     val_size : val_sizes,
     val_interval : {None},
     class_weights : {None},
     tensorboard_folder : folders,
     subset_and_embeddings : contradictory,
     max_length : {MaxGenLen},
     use_extra_toks : {None}]

Unconstructed ==
    /\ model = [state |-> "unconstructed", atexit |-> FALSE, referenced |-> FALSE,
                interpreter |-> "running", estimator_ |-> 0,
                estimator_dir |-> None, has_cleanup_glob |-> FALSE,
                cleanup_glob |-> None, disposals |-> 0]
    /\ pipeline = NewPipeline
    /\ fs \in {{TensorboardFolder}, {TensorboardFolder, CheckpointDir}}
    /\ engine = [builds |-> 0, target_head |-> FALSE]
    /\ last = NoCall
    /\ IdleFormat /\ IdleChunks /\ IdleSettings /\ IdleGrid /\ IdleSplit /\ IdleEmbed

\* The life of an instance under every choice of working directory and of
\* the contradictory options, with one device and batches of one.
InitLifecycle ==
    /\ config \in Configurations({0, MaxN}, {1}, {1}, {0}, {None},
                                 {None, Some(TensorboardFolder)}, BOOLEAN)
    /\ Unconstructed

NextLifecycle ==
    \/ Construct \/ Save \/ Load \/ Finetune \/ Inference \/ GenerateText
    \/ Del \/ Release \/ AtExit \/ Finalize \/ Returned

Spec == InitLifecycle /\ [][NextLifecycle]_vars

\* Repeated finetune calls under every batch size, epoch count, device count
\* and default dataset_size, with the validation size chosen automatically or
\* configured as 1..MaxValSize.
InitSteps ==
    /\ config \in Configurations(0..MaxN, 1..MaxCfgBatch, 1..MaxEpochs, 0..MaxGpus,
                                 {None} \cup {Some(v) : v \in 1..MaxValSize},
                                 {None}, {FALSE})
    /\ Unconstructed

NextSteps == Construct \/ Finetune \/ Returned

SpecSteps == InitSteps /\ [][NextSteps]_vars

\* C7: after __del__ has run on an instance whose working directory was
\* auto-allocated as a temporary directory (by the explicit call, by the exit
\* handler, at finalization, or when an instance made by load is collected)
\* that directory no longer exists and nothing else was removed; __del__ on
\* an instance configured with a persistent tensorboard directory removes
\* nothing; and a run of __del__ after the first (the explicit call, then the
\* exit handler, then finalization) changes nothing and does not fail.
C7_Disposal ==
    (last.op \in {"del", "collect", "atexit", "finalize"}
        /\ ~IsNone(model.estimator_dir)) =>
        /\ last.raised = "no"
        /\ (IsNone(config.tensorboard_folder) =>
              /\ Val(model.estimator_dir) \notin fs
              /\ fs = last.before.fs \ {Val(model.estimator_dir)})
        /\ (~IsNone(config.tensorboard_folder) =>
              /\ fs = last.before.fs
              /\ Val(model.estimator_dir) \in fs)
        /\ (model.disposals >= 2 => fs = last.before.fs)

\* the exit handler has run after an explicit release of an instance with a
\* temporary directory: the directory is gone and neither disposal failed
C7_Witness ==
    /\ last.op = "atexit"
    /\ model.disposals = 2
    /\ IsNone(config.tensorboard_folder)
    /\ model.estimator_dir = Some(TempDir)
    /\ TempDir \notin fs
    /\ TempDir \notin last.before.fs
    /\ last.raised = "no"

\* C8: finetune(Xs, Y) with materialized Xs and Y of different lengths raises
\* FinetuneError before any engine is built and before any state changes: the
\* estimator handle, the label encoder, target_dim and config.dataset_size are
\* as they were before the call.
C8_MismatchFailsFast ==
    (/\ last.op = "finetune"
     /\ last.args[1].kind = "list"
     /\ ~IsNone(last.args[2])
     /\ Val(last.args[2]).kind = "list"
     /\ last.args[1].n /= Len(Val(last.args[2]).labels)) =>
        /\ last.raised = "FinetuneError"
        /\ ~last.built
        /\ ~last.trained
        /\ model.estimator_ = last.before.estimator_
        /\ pipeline.label_encoder = last.before.pipeline.label_encoder
        /\ pipeline.target_dim = last.before.pipeline.target_dim
        /\ config.dataset_size = last.before.dataset_size

\* a mismatched call on an instance that was finetuned before: its engine,
\* label encoder and dataset_size are the earlier call's
C8_Witness ==
    /\ last.op = "finetune"
    /\ last.raised = "FinetuneError"
    /\ last.args[1] = ListXs(1)
    /\ last.args[2] = ListY(<<"a", "b">>)
    /\ model.atexit
    /\ model.estimator_ = 1
    /\ pipeline.label_encoder = 1
    /\ pipeline.target_dim = Some(2)
    /\ config.dataset_size = 3

\* C9: generate_text with an empty seed and use_extra_toks=False fails with an
\* error instead of starting generation: it builds no engine and requests no
\* generation step.
C9_EmptySeedFailsFast ==
    (/\ last.op = "generate_text"
     /\ last.args[1] = <<>>
     /\ last.args[3] = FALSE) =>
        /\ last.raised /= "no"
        /\ ~last.built
        /\ last.gen_steps = 0

\* C10: the number of steps finetune asks the engine to train is
\* ceil(n / batch_size) * n_epochs divided by max(1, number of devices), n
\* being the number of examples passed to the call.
C10_TrainSteps ==
    (last.op = "finetune" /\ last.trained) =>
        LET n  == last.args[1].n
            bs == IF IsNone(last.args[3]) THEN config.batch_size ELSE Val(last.args[3])
        IN  last.num_steps =
                (CeilDiv(n, bs) * config.n_epochs) \div Max(1, config.visible_gpus)

\* C11: over any sequence of finetune, predict, featurize and generate_text
\* calls, get_estimator(force_build_lm=False) never fails, and it builds a new
\* engine only when none exists yet or when the target dimensionality was
\* discovered by this call's label fit; otherwise the earlier engine is used.
C11_EngineReuse ==
    (/\ \/ last.op \in {"finetune", "featurize"}
        \/ (last.op = "predict" /\ pipeline.label_encoder > 0)
     /\ last.raised /= "FinetuneError") =>
        /\ last.raised = "no"
        /\ (last.built =>
              \/ last.before.estimator_ = 0
              \/ (IsNone(last.before.pipeline.target_dim) /\ ~IsNone(pipeline.target_dim)))
        /\ (~last.built => model.estimator_ = last.before.estimator_)

\* C12: when a generate_text call has ended, by returning or by raising, the
\* configuration has no use_extra_toks entry and every other entry is as it
\* was before the call.
C12_ExtraToksTemporary ==
    last.op = "generate_text" =>
        /\ IsNone(config.use_extra_toks)
        /\ [config EXCEPT !.use_extra_toks = None]
              = [last.before.config EXCEPT !.use_extra_toks = None]

\* C15: whenever finetune attaches the in-process evaluator (val_size > 0),
\* the number of evaluation steps it passes is at least 1.
C15_EvalSteps ==
    (last.op = "finetune" /\ last.trained /\ ~IsNone(last.eval_steps)) =>
        Val(last.eval_steps) >= 1

-----------------------------------------------------------------------------
(* BasePipeline._get_train_input_fns: the validation and training streams *)

\* the orders in which one iteration over dataset().shuffle(buffer, seed) can
\* yield the encoded examples 1..m: every permutation
ShuffleOrders(m) ==
    {p \in [1..m -> 1..m] : \A i, j \in 1..m : p[i] = p[j] => i = j}

\* Dataset.take(n), Dataset.skip(n)
Take(order, n) == Slice(order, 0, n)
Skip(order, n) == Slice(order, n, Len(order))

\* Dataset.batch(batch_size): consecutive batches, the last one possibly short
RECURSIVE Batch(_, _)
Batch(order, batch_size) ==
    IF order = <<>> THEN <<>>
    ELSE <<Take(order, batch_size)>> \o Batch(Skip(order, batch_size), batch_size)

\* _get_train_input_fns(Xs, Y, batch_size, val_size), lines 123-140, as the
\* batches the two input functions yield.  orders[e] is the order the shuffle
\* yields on the e-th iteration over it: the validation stream iterates a
\* shuffle with the configured seed once, and the training stream iterates a
\* shuffle with the same seed once per epoch, because repeat(n_epochs) is
\* applied after shuffle, skip and batch and the shuffle reshuffles on every
\* iteration (shuffle's default reshuffle_each_iteration).
GetTrainInputFns(orders, batch_size_arg, cfg_batch_size, val_size_arg, n_epochs) ==
    LET batch_size == IF IsNone(batch_size_arg) \/ batch_size_arg = Some(0)
                      THEN cfg_batch_size ELSE Val(batch_size_arg)
        val_size == IF IsNone(val_size_arg) THEN 0 ELSE Val(val_size_arg)
    IN  [val |-> Batch(Take(orders[1], val_size), batch_size),
         train |-> Concat([e \in 1..n_epochs |->
                              Batch(Skip(orders[e], val_size), batch_size)])]

CallGetTrainInputFns ==
    /\ ~split.called
    /\ split' = [split EXCEPT
                    !.called = TRUE,
                    !.out = GetTrainInputFns(split.orders, split.batch_size,
                                             split.cfg_batch_size, split.val_size,
                                             split.n_epochs)]
    /\ UNCHANGED <<fmt, chunks, vsettings, grid, embed, config, model, pipeline, fs, engine, last>>

\* m encoded examples, every order of the first iteration (the seeded order)
\* and of each later one
InitSplit ==
    /\ split \in UNION {
            {[called |-> FALSE, m |-> m, orders |-> o, batch_size |-> b,
              cfg_batch_size |-> MaxSplitBatch, val_size |-> v,
              n_epochs |-> Len(o), out |-> Idle] :
                o \in UNION {[1..e -> ShuffleOrders(m)] : e \in 1..MaxSplitEpochs},
                b \in {None} \cup {Some(k) : k \in 1..MaxSplitBatch},
                v \in {None} \cup {Some(k) : k \in 0..MaxSplitVal}} :
            m \in 0..MaxSplitExamples}
    /\ IdleFormat /\ IdleChunks /\ IdleSettings /\ IdleGrid /\ IdleEmbed /\ IdleLifecycle

NextSplit == CallGetTrainInputFns

SpecSplit == InitSplit /\ [][NextSplit]_vars

\* the examples of a list of batches, in order
SplitFlat(batches) == Concat(batches)
SplitCount(x, seq) == Cardinality({i \in 1..Len(seq) : seq[i] = x})
SplitV == Min(IF IsNone(split.val_size) THEN 0 ELSE Val(split.val_size), split.m)

\* C13: for M encoded examples and validation size v the validation input
\* yields the first min(v, M) examples of the seeded shuffle order, and every
\* training epoch yields exactly the other M - min(v, M) examples: no
\* validation example is in any training batch and every example belongs to
\* exactly one of the two sets.
C13_TrainValDisjoint ==
    split.called =>
        LET val == SplitFlat(split.out.val)
            train == SplitFlat(split.out.train)
        IN  /\ val = Take(split.orders[1], SplitV)
            /\ Len(train) = split.n_epochs * (split.m - SplitV)
            /\ \A x \in 1..split.m :
                  IF SplitCount(x, val) > 0
                  THEN SplitCount(x, val) = 1 /\ SplitCount(x, train) = 0
                  ELSE SplitCount(x, train) = split.n_epochs

-----------------------------------------------------------------------------
(* BaseModel._initialize: process_embeddings, the transform of the
   checkpoint's embedding table *)

\* len(ENCODER.special_tokens)
NumSpecialTokens == 3

\* the table stored in the base checkpoint: vocab_size rows of word and
\* special-token embeddings followed by the positional rows
CheckpointTable(pos_rows) ==
    [i \in 1..(VocabSize + pos_rows) |-> [src |-> "checkpoint", row |-> i]]

\* interpolate_pos_embed(positional_embed, max_length): max_length rows
InterpolatePosEmbed(positional_embed, max_length) ==
    [k \in 1..max_length |-> [src |-> "interpolated", row |-> k]]

\* process_embeddings(name, value), lines 90-107; is_we says "/we:0" in name
ProcessEmbeddings(interpolate_pos_embed, max_length, is_we, value) ==
    IF ~is_we THEN [raised |-> "no", table |-> value]
    ELSE
      LET vocab_size == VocabSize
          word_embeddings == Slice(value, 0, vocab_size - NumSpecialTokens)
          special_embed == Slice(value, Len(word_embeddings), vocab_size)
          positional_embed == Slice(value, vocab_size, Len(value))
      IN  IF interpolate_pos_embed /\ max_length /= Len(positional_embed)
          THEN [raised |-> "no",
                table |-> word_embeddings \o special_embed
                            \o InterpolatePosEmbed(positional_embed, max_length)]
          ELSE IF max_length > Len(positional_embed)
          THEN [raised |-> "ValueError", table |-> <<>>]
          ELSE [raised |-> "no",
                table |-> word_embeddings \o special_embed
                            \o Slice(positional_embed, 0, max_length)]

\* Saver(fallback_filename, exclude_matches, variable_transforms), line 109:
\* the constructor keeps its arguments for the time the engine restores
\* variables (get_estimator hands the saver to the model function, line 207);
\* it reads no checkpoint and applies no transform
SaverInit(variable_transforms) ==
    [raised |-> "no", variable_transforms |-> variable_transforms]

\* __init__ and _initialize, lines 60-113: the contradictory options raise
\* ValueError (lines 67-68); otherwise process_embeddings is defined and handed
\* to the Saver as a variable transform.  No statement of these lines calls it
\* or compares max_length with the checkpoint.
EmbedInitialize ==
    /\ embed.stage = "unconstructed"
    /\ IF embed.subset_and_embeddings
       THEN embed' = [embed EXCEPT !.stage = "construct_failed",
                                   !.raised = "ValueError"]
       ELSE LET saver == SaverInit(<<"process_embeddings">>)
            IN  embed' = IF saver.raised /= "no"
                         THEN [embed EXCEPT !.stage = "construct_failed",
                                            !.raised = saver.raised]
                         ELSE [embed EXCEPT !.stage = "constructed"]
    /\ UNCHANGED <<fmt, chunks, vsettings, grid, split, config, model, pipeline, fs, engine, last>>

\* _array_format of an input of n tokens on the constructed instance, lines
\* 34-66: it writes the position ids vocab_size .. vocab_size + max_length - 1
\* and reads neither the checkpoint nor interpolate_pos_embed; what it raises
\* is what ArrayFormat raises
EmbedArrayFormat ==
    /\ embed.stage \in {"constructed", "loaded"}
    /\ embed.formatted + embed.format_failed < MaxEmbFormats
    /\ \E n \in 0..(MaxEmbLen + 1) :
        LET out == ArrayFormat(embed.max_length,
                               [token_ids |-> [k \in 1..n |-> 1], labels |-> None])
        IN  embed' = IF out.raised /= "no"
                     THEN [embed EXCEPT !.format_failed = embed.format_failed + 1,
                                        !.format_raised = out.raised]
                     ELSE [embed EXCEPT !.formatted = embed.formatted + 1,
                                        !.last_tokens = n,
                                        !.last_position = out.pos[embed.max_length]]
    /\ UNCHANGED <<fmt, chunks, vsettings, grid, split, config, model, pipeline, fs, engine, last>>

\* the engine restores the base checkpoint: the Saver applies its variable
\* transforms to every variable it restores
EmbedLoadWeights ==
    /\ embed.stage = "constructed"
    /\ LET out == ProcessEmbeddings(embed.interpolate_pos_embed, embed.max_length,
                                    embed.is_we, CheckpointTable(embed.pos_rows))
       IN  embed' = [embed EXCEPT
                        !.stage = IF out.raised = "no" THEN "loaded" ELSE "load_failed",
                        !.raised = out.raised,
                        !.table = out.table]
    /\ UNCHANGED <<fmt, chunks, vsettings, grid, split, config, model, pipeline, fs, engine, last>>

InitEmbed ==
    /\ embed \in {[stage |-> "unconstructed", subset_and_embeddings |-> sub,
                   interpolate_pos_embed |-> ip,
                   max_length |-> ml, pos_rows |-> rows, is_we |-> we,
                   formatted |-> 0, format_failed |-> 0, format_raised |-> "no",
                   last_tokens |-> 0, last_position |-> 0, raised |-> "no",
                   table |-> <<>>] :
                    sub \in BOOLEAN, ip \in BOOLEAN, ml \in 1..MaxEmbLen,
                    rows \in 1..MaxPosRows, we \in BOOLEAN}
    /\ IdleFormat /\ IdleChunks /\ IdleSettings /\ IdleGrid /\ IdleSplit /\ IdleLifecycle

NextEmbed == EmbedInitialize \/ EmbedArrayFormat \/ EmbedLoadWeights

SpecEmbed == InitEmbed /\ [][NextEmbed]_vars

\* max_length exceeds the checkpoint's positional rows, interpolation is off
EmbedOverlong ==
    embed.is_we /\ ~embed.interpolate_pos_embed /\ embed.max_length > embed.pos_rows

\* C14: with interpolate_pos_embed disabled and max_length greater than the
\* number of positional rows of the base checkpoint the instance fails at
\* construction or at array-formatting time: no array is ever formatted and
\* the engine never gets to restore weights; and whenever the transform does
\* not fail, the transformed table has exactly vocab_size + max_length rows.
C14_FailFast ==
    /\ EmbedOverlong =>
          /\ embed.formatted = 0
          /\ embed.stage \notin {"loaded", "load_failed"}
    /\ (embed.is_we /\ embed.stage = "loaded") =>
          Len(embed.table) = VocabSize + embed.max_length

====
